---- MODULE Spec2Model ----
(***************************************************************************)
(* avg_temp_map.py: fetch a station inventory and a yearly observation     *)
(* archive, average the temperature per station of one country, normalise  *)
(* a marker size and persist the table as the cache artifact of the        *)
(* (country_code, year) key.                                               *)
(*                                                                         *)
(* Text is a sequence of one-character strings.  A floating point number   *)
(* is an exact rational <<numerator, denominator>> in lowest terms with a  *)
(* positive denominator; NaN is <<0, 0>>, an infinity has denominator 0.    *)
(***************************************************************************)
EXTENDS Integers, Sequences, FiniteSets, TLC

\* ------------------------------------------------------------------ bounds
MaxLines == 2      \* lines of the station inventory served
MaxRows  == 3      \* rows of observations on the server
MaxRuns  == 2      \* invocations of main in one behaviour

\* ------------------------------------------------------------- arithmetic
Abs(n) == IF n < 0 THEN 0 - n ELSE n

Min(a, b) == IF a <= b THEN a ELSE b

RECURSIVE Gcd(_, _)
Gcd(a, b) == IF b = 0 THEN a ELSE Gcd(b, a % b)

\* n/d in lowest terms, d > 0
Frac(n, d) ==
    LET g == Gcd(Abs(n), Abs(d))
        s == IF d < 0 THEN 0 - 1 ELSE 1
    IN  <<(s * n) \div g, (s * d) \div g>>

\* 0/0 stands for NaN
NaN == <<0, 0>>

\* float / float as numpy divides: 0/0 and NaN operands give NaN, x/0 gives
\* an infinity <<1, 0>> or <<-1, 0>>; nothing raises
FDiv(a, b) ==
    IF a = NaN \/ b = NaN THEN NaN
    ELSE IF b[1] = 0 THEN (IF a[1] = 0 THEN NaN ELSE <<IF a[1] < 0 THEN 0 - 1 ELSE 1, 0>>)
    ELSE Frac(a[1] * b[2], a[2] * b[1])

FMul(a, b) == IF a = NaN \/ b = NaN THEN NaN ELSE Frac(a[1] * b[1], a[2] * b[2])

FAbs(a) == IF a = NaN THEN NaN ELSE <<Abs(a[1]), a[2]>>

FLeq(a, b) == a[1] * b[2] <= b[1] * a[2]

FAdd(a, b) == Frac(a[1] * b[2] + b[1] * a[2], a[2] * b[2])

RECURSIVE Pow10(_)
Pow10(k) == IF k = 0 THEN 1 ELSE 10 * Pow10(k - 1)

\* ------------------------------------------------------------------- text
Digit == <<"0", "1", "2", "3", "4", "5", "6", "7", "8", "9">>

IsDigit(c) == \E i \in 1..10 : Digit[i] = c

DigitVal(c) == (CHOOSE i \in 1..10 : Digit[i] = c) - 1

\* Python s[a:b] for 0 <= a <= b
Slice(s, a, b) == SubSeq(s, a + 1, Min(b, Len(s)))

RECURSIVE LStrip(_)
LStrip(s) == IF s # <<>> /\ Head(s) = " " THEN LStrip(Tail(s)) ELSE s

RECURSIVE RStrip(_)
RStrip(s) == IF s # <<>> /\ s[Len(s)] = " " THEN RStrip(SubSeq(s, 1, Len(s) - 1)) ELSE s

Strip(s) == RStrip(LStrip(s))

\* str(n) for an integer n
RECURSIVE Str(_)
Str(n) == IF n < 0 THEN <<"-">> \o Str(0 - n)
          ELSE IF n < 10 THEN <<Digit[n + 1]>>
          ELSE Str(n \div 10) \o <<Digit[(n % 10) + 1]>>

RECURSIVE DigitsVal(_)
DigitsVal(s) == IF s = <<>> THEN 0 ELSE 10 * DigitsVal(SubSeq(s, 1, Len(s) - 1)) + DigitVal(s[Len(s)])

\* the unsigned decimal literals float() accepts here: digits with at most one "."
IsDecimal(s) ==
    /\ \E i \in 1..Len(s) : IsDigit(s[i])
    /\ \A i \in 1..Len(s) : IsDigit(s[i]) \/ s[i] = "."
    /\ Cardinality({i \in 1..Len(s) : s[i] = "."}) <= 1

Unsigned(s) == IF s # <<>> /\ (Head(s) = "-" \/ Head(s) = "+") THEN Tail(s) ELSE s

\* float(s) raises ValueError
FloatFails(s) == ~ IsDecimal(Unsigned(Strip(s)))

\* float(s) when it does not raise
Float(s) ==
    LET t    == Strip(s)
        u    == Unsigned(t)
        dots == {i \in 1..Len(u) : u[i] = "."}
        p    == IF dots = {} THEN Len(u) + 1 ELSE CHOOSE i \in dots : TRUE
        ip   == SubSeq(u, 1, p - 1)
        fp   == SubSeq(u, p + 1, Len(u))
        mag  == DigitsVal(ip \o fp)
        sgn  == IF t # <<>> /\ Head(t) = "-" THEN 0 - 1 ELSE 1
    IN  Frac(sgn * mag, Pow10(Len(fp)))

\* str.splitlines() on "\n": the texts between the line ends, a last line
\* without a line end included
splitlines(s) ==
    LET ends   == {i \in 1..Len(s) : s[i] = "\n"}
                  \cup (IF s # <<>> /\ s[Len(s)] # "\n" THEN {Len(s) + 1} ELSE {})
        End(k) == IF k = 0 THEN 0
                  ELSE CHOOSE e \in ends : Cardinality({x \in ends : x < e}) = k - 1
    IN  [k \in 1..Cardinality(ends) |-> SubSeq(s, End(k - 1) + 1, End(k) - 1)]

\* ordering of the characters that occur in station ids (ASCII order)
Alphabet == <<" ", "+", "-", ".", "0", "1", "2", "3", "4", "5", "6", "7", "8", "9",
              "E", "N", "O", "S", "Z", "_", "x">>

Ord(c) == CHOOSE i \in 1..Len(Alphabet) : Alphabet[i] = c

RECURSIVE StrLess(_, _)
StrLess(a, b) ==
    IF b = <<>> THEN FALSE
    ELSE IF a = <<>> THEN TRUE
    ELSE IF Head(a) = Head(b) THEN StrLess(Tail(a), Tail(b))
    ELSE Ord(Head(a)) < Ord(Head(b))

\* the elements of a finite set of texts in ascending order
RECURSIVE Sorted(_)
Sorted(S) ==
    IF S = {} THEN <<>>
    ELSE LET m == CHOOSE x \in S : \A y \in S \ {x} : StrLess(x, y)
         IN  <<m>> \o Sorted(S \ {m})

\* ------------------------------------------------ inputs the model draws on
ID_NO1 == <<"N", "O", "0", "0", "0", "0", "0", "0", "0", "0", "1">>
ID_NO2 == <<"N", "O", "0", "0", "0", "0", "0", "0", "0", "0", "2">>
ID_NZ1 == <<"N", "Z", "0", "0", "0", "0", "0", "0", "0", "0", "1">>
ID_SE1 == <<"S", "E", "0", "0", "0", "0", "0", "0", "0", "0", "1">>

\* inventory lines: id, blank, 8 columns of latitude, blank, 9 columns of longitude
LineCands == <<
    ID_NO1 \o <<" ">> \o <<" ", "5", "9", ".", "9", "0", "0", "0">> \o <<" ">>
           \o <<" ", " ", "1", "0", ".", "7", "2", "0", "0">>,
    ID_NO2 \o <<" ">> \o <<" ", "6", "9", ".", "6", "5", "0", "0">> \o <<" ">>
           \o <<" ", " ", "1", "8", ".", "9", "2", "0", "0">>,
    ID_NZ1 \o <<" ">> \o <<"-", "4", "1", ".", "3", "0", "0", "0">> \o <<" ">>
           \o <<" ", "1", "7", "4", ".", "8", "0", "0", "0">>,
    \* latitude that is not a number
    ID_SE1 \o <<" ">> \o <<" ", "5", "x", ".", "3", "5", "0", "0">> \o <<" ">>
           \o <<" ", " ", "1", "8", ".", "0", "6", "0", "0">>,
    \* line shorter than the record width
    <<"N", "O", "0", "0", "0", "0">> >>

\* observation rows (ID, DATE, ELEMENT, VALUE; the flag columns are never read)
RowCands == <<
    [ID |-> ID_NO1, DATE |-> 20200101, ELEMENT |-> "TMAX", VALUE |-> 21],
    [ID |-> ID_NO1, DATE |-> 20200102, ELEMENT |-> "TMIN", VALUE |-> 25],
    [ID |-> ID_NO2, DATE |-> 20200101, ELEMENT |-> "TAVG", VALUE |-> 0 - 42],
    [ID |-> ID_NO2, DATE |-> 20200102, ELEMENT |-> "TMAX", VALUE |-> 0],
    [ID |-> ID_NO1, DATE |-> 20200101, ELEMENT |-> "PRCP", VALUE |-> 100],
    \* 30 February
    [ID |-> ID_NO2, DATE |-> 20200230, ELEMENT |-> "TMIN", VALUE |-> 5],
    [ID |-> ID_NO1, DATE |-> 20210101, ELEMENT |-> "TMAX", VALUE |-> 25] >>

Countries == {<<"N", "O">>, <<"S", "E">>}

Years == {2020, 2021}

\* sequences of distinct indices (station ids are unique within an inventory)
DistinctSeqs(n, k) ==
    UNION {{q \in [1..m -> 1..n] : \A i, j \in 1..m : i # j => q[i] # q[j]} : m \in 0..k}

\* non-decreasing index sequences (one representative per multiset of rows)
SortedSeqs(n, k) ==
    UNION {{q \in [1..m -> 1..n] : \A i, j \in 1..m : i < j => q[i] <= q[j]} : m \in 0..k}

RECURSIVE JoinLines(_)
JoinLines(ls) == IF ls = <<>> THEN <<>> ELSE Head(ls) \o <<"\n">> \o JoinLines(Tail(ls))

Inventories == {JoinLines([i \in 1..Len(q) |-> LineCands[q[i]]]) : q \in DistinctSeqs(Len(LineCands), MaxLines)}

Datasets == {[i \in 1..Len(q) |-> RowCands[q[i]]] : q \in SortedSeqs(Len(RowCands), MaxRows)}

\* the servers either hold any inventory and one of two fixed sets of rows, or
\* one of two fixed inventories and any set of rows
BaseInventories == {JoinLines(<<LineCands[1], LineCands[2]>>), JoinLines(<<LineCands[2]>>)}

BaseDatasets == {<<RowCands[1], RowCands[3]>>, <<RowCands[2], RowCands[7]>>}

\* ------------------------------------------------------- pipeline functions
\* Python's None: no text equals it, every character being a one-character string
None == <<"None">>

\* truth value of a path or None in "if csv_file:"
Truthy(x) == x # None /\ x # <<>>

OutputFileNoYear(cc, y) ==
    cc \o <<"_", "t", "e", "m", "p", "e", "r", "a", "t", "u", "r", "e", "_",
            "p", "r", "o", "c", "e", "s", "s", "e", "d", ".", "c", "s", "v">>

\* f'{country_code}_temperature_{year}_processed.csv'
OutputFile(cc, y) ==
    cc \o <<"_", "t", "e", "m", "p", "e", "r", "a", "t", "u", "r", "e", "_">> \o Str(y)
       \o <<"_", "p", "r", "o", "c", "e", "s", "s", "e", "d", ".", "c", "s", "v">>

ExistsNever(f, name) == FALSE

\* os.path.exists(name) on the file system f
Exists(f, name) == name \in DOMAIN f

\* one iteration of the loop over the inventory lines: float() raises on a
\* latitude or longitude that is not a number
LineFails(line) == FloatFails(Slice(line, 12, 20)) \/ FloatFails(Slice(line, 21, 30))

\* the station tuple (station_id, lat, lon) of a line
StationOf(line) == <<Slice(line, 0, 11), Float(Slice(line, 12, 20)), Float(Slice(line, 21, 30))>>

CountryMatchesFirstChar(line, cc) == Slice(line, 0, 1) = Slice(cc, 0, 1)

\* country == country_code
CountryMatches(line, cc) == Slice(line, 0, 2) = cc

\* the loop over inventory_data.splitlines(); ok = FALSE when a line raised
RECURSIVE StationLoop(_, _, _)
StationLoop(lines, cc, acc) ==
    IF lines = <<>> THEN [ok |-> TRUE, stations |-> acc]
    ELSE IF LineFails(Head(lines)) THEN [ok |-> FALSE, stations |-> acc]
    ELSE StationLoop(Tail(lines), cc,
                     IF CountryMatches(Head(lines), cc)
                     THEN Append(acc, StationOf(Head(lines))) ELSE acc)

ParseStations(text, cc) == StationLoop(splitlines(text), cc, <<>>)

TempElements == {"TMAX", "TMIN", "TAVG"}

RetainedAnyElement(row, station_ids) == row.ID \in station_ids

\* data['ID'].isin(station_ids) & data['ELEMENT'].isin(['TMAX', 'TMIN', 'TAVG'])
Retained(row, station_ids) == row.ID \in station_ids /\ row.ELEMENT \in TempElements

FilterRows(d, sts) ==
    LET ids == {sts[i][1] : i \in 1..Len(sts)}
        Keep(row) == Retained(row, ids)
    IN  SelectSeq(d, Keep)

IsLeap(y) == (y % 4 = 0 /\ y % 100 # 0) \/ y % 400 = 0

DaysIn(m, y) == IF m = 2 THEN (IF IsLeap(y) THEN 29 ELSE 28)
                ELSE IF m \in {4, 6, 9, 11} THEN 30 ELSE 31

\* pd.to_datetime(str(d), format='%Y%m%d') does not raise
ValidDate(d) ==
    LET y == d \div 10000
        m == (d \div 100) % 100
        dd == d % 100
    IN  /\ y \in 1000..9999
        /\ m \in 1..12
        /\ dd \in 1..DaysIn(m, y)

DatesFail(rows) == \E i \in 1..Len(rows) : ~ ValidDate(rows[i].DATE)

\* VALUE.astype(float) / 10.0
ToCelsius(rows) == [i \in 1..Len(rows) |-> [rows[i] EXCEPT !.VALUE = Frac(rows[i].VALUE, 10)]]

RECURSIVE SumValues(_)
SumValues(rows) == IF rows = <<>> THEN <<0, 1>> ELSE FAdd(Head(rows).VALUE, SumValues(Tail(rows)))

\* groupby(['ID']).agg({'VALUE': 'mean'}).reset_index(): one row per ID, ascending
GroupMean(rows) ==
    LET ids == Sorted({rows[i].ID : i \in 1..Len(rows)})
        Grp(id) == LET In(r) == r.ID = id IN SelectSeq(rows, In)
    IN  [k \in 1..Len(ids) |->
            [ID |-> ids[k], VALUE |-> FDiv(SumValues(Grp(ids[k])), <<Len(Grp(ids[k])), 1>>)]]

RECURSIVE MatchRowsAnyId(_, _)
MatchRowsAnyId(a, sts) ==
    IF sts = <<>> THEN <<>>
    ELSE <<[ID |-> a.ID, VALUE |-> a.VALUE, LAT |-> Head(sts)[2], LON |-> Head(sts)[3]]>>
         \o MatchRowsAnyId(a, Tail(sts))

\* the rows of station_df matching one aggregate row, in station order
RECURSIVE MatchRows(_, _)
MatchRows(a, sts) ==
    IF sts = <<>> THEN <<>>
    ELSE (IF Head(sts)[1] = a.ID
          THEN <<[ID |-> a.ID, VALUE |-> a.VALUE, LAT |-> Head(sts)[2], LON |-> Head(sts)[3]]>>
          ELSE <<>>) \o MatchRows(a, Tail(sts))

\* avg_temp_data.merge(station_df, on='ID'): inner join, order of the left keys
RECURSIVE Merge(_, _)
Merge(avg, sts) ==
    IF avg = <<>> THEN <<>> ELSE MatchRows(Head(avg), sts) \o Merge(Tail(avg), sts)

\* Series.max(): NaN on an empty series
RECURSIVE SeriesMax(_)
SeriesMax(xs) ==
    IF xs = <<>> THEN NaN
    ELSE LET r == SeriesMax(Tail(xs))
         IN  IF r = NaN THEN Head(xs) ELSE IF FLeq(r, Head(xs)) THEN Head(xs) ELSE r

\* SIZE = VALUE.abs(); max_temp = SIZE.max(); SIZE = SIZE / max_temp * 15
SizeOf(v, max_temp) == FMul(FDiv(FAbs(v), max_temp), <<15, 1>>)

Normalize(rows) ==
    LET max_temp == SeriesMax([i \in 1..Len(rows) |-> FAbs(rows[i].VALUE)])
    IN  [i \in 1..Len(rows) |->
            [ID |-> rows[i].ID, VALUE |-> rows[i].VALUE, LAT |-> rows[i].LAT,
             LON |-> rows[i].LON, SIZE |-> SizeOf(rows[i].VALUE, max_temp)]]

\* the yearly archive by_year/{year}.csv.gz holds the rows dated in that year
Archive(rows, y) == LET In(r) == r.DATE \div 10000 = y IN SelectSeq(rows, In)

\* -------------------------------------------------------------------- state
VARIABLES
    srv_inventory,   \* text served at inventory_url
    srv_rows,        \* observation rows held by the archive server
    fs,              \* the working directory: file name -> content
    pc,              \* position of the single process
    year, country_code,                          \* args of main
    inventory_data, stations, data, avg_temp_data, \* locals of fetch_and_process_data
    csv_file,        \* what fetch_and_process_data returned to main
    failed,          \* the stage whose exception was caught ("" if none)
    ran,             \* stages executed by the current call
    fs0,             \* fs when the current call began
    writers,         \* file name -> the keys whose runs created or wrote it
    shown,           \* visualize_data was called by the current run
    runs

vars == <<srv_inventory, srv_rows, fs, pc, year, country_code, inventory_data, stations,
          data, avg_temp_data, csv_file, failed, ran, fs0, writers, shown, runs>>

env == <<srv_inventory, srv_rows>>

args == <<year, country_code>>

locals == <<inventory_data, stations, data, avg_temp_data>>

output_file == OutputFile(country_code, year)

NoFiles == [n \in {} |-> {}]

Put(f, name, content) == [n \in DOMAIN f \cup {name} |-> IF n = name THEN content ELSE f[n]]

Init ==
    /\ \/ srv_inventory \in Inventories /\ srv_rows \in BaseDatasets
       \/ srv_inventory \in BaseInventories /\ srv_rows \in Datasets
    /\ fs = NoFiles
    /\ pc = "idle"
    /\ year = 0
    /\ country_code = <<>>
    /\ inventory_data = <<>>
    /\ stations = <<>>
    /\ data = <<>>
    /\ avg_temp_data = <<>>
    /\ csv_file = None
    /\ failed = ""
    /\ ran = {}
    /\ fs0 = NoFiles
    /\ writers = NoFiles
    /\ shown = FALSE
    /\ runs = 0

\* main: parse_args, then the call of fetch_and_process_data
Main(cc, y) ==
    /\ pc = "idle"
    /\ runs < MaxRuns
    /\ runs' = runs + 1
    /\ country_code' = cc
    /\ year' = y
    /\ fs0' = fs
    /\ pc' = "cache_gate"
    /\ UNCHANGED <<env, fs, locals, csv_file, failed, ran, writers, shown>>

\* if os.path.exists(output_file): return output_file
CacheHit ==
    /\ pc = "cache_gate"
    /\ Exists(fs, output_file)
    /\ csv_file' = output_file
    /\ pc' = "main_109"
    /\ UNCHANGED <<env, fs, args, locals, failed, ran, fs0, writers, shown, runs>>

CacheMiss ==
    /\ pc = "cache_gate"
    /\ ~ Exists(fs, output_file)
    /\ pc' = "fetch_inventory"
    /\ UNCHANGED <<env, fs, args, locals, csv_file, failed, ran, fs0, writers, shown, runs>>

\* an except clause: print the error, return None
Abort(stage) ==
    /\ failed' = stage
    /\ ran' = ran \cup {stage}
    /\ csv_file' = None
    /\ pc' = "main_109"

\* requests.get(inventory_url); raise_for_status(); response.text
FetchInventory ==
    /\ pc = "fetch_inventory"
    /\ \/ /\ inventory_data' = srv_inventory
          /\ ran' = ran \cup {"fetch_inventory"}
          /\ pc' = "parse_stations"
          /\ UNCHANGED <<csv_file, failed>>
       \/ /\ Abort("fetch_inventory")
          /\ UNCHANGED inventory_data
    /\ UNCHANGED <<env, fs, args, stations, data, avg_temp_data, fs0, writers, shown, runs>>

\* the loop over inventory_data.splitlines()
ParseInventory ==
    /\ pc = "parse_stations"
    /\ LET r == ParseStations(inventory_data, country_code)
       IN  IF r.ok
           THEN /\ stations' = r.stations
                /\ ran' = ran \cup {"parse_stations"}
                /\ pc' = "fetch_archive"
                /\ UNCHANGED <<csv_file, failed>>
           ELSE /\ Abort("parse_stations")
                /\ UNCHANGED stations
    /\ UNCHANGED <<env, fs, args, inventory_data, data, avg_temp_data, fs0, writers, shown, runs>>

\* requests.get(ghcn_url); raise_for_status(); response.content
FetchArchive ==
    /\ pc = "fetch_archive"
    /\ \/ /\ data' = Archive(srv_rows, year)
          /\ ran' = ran \cup {"fetch_archive"}
          /\ pc' = "read_archive"
          /\ UNCHANGED <<csv_file, failed>>
       \/ /\ Abort("fetch_archive")
          /\ UNCHANGED data
    /\ UNCHANGED <<env, fs, args, inventory_data, stations, avg_temp_data, fs0, writers, shown, runs>>

\* gzip.open and pd.read_csv(f, header=None): raise on bytes that are not a
\* gzip stream and on a file without rows (EmptyDataError)
ReadArchive ==
    /\ pc = "read_archive"
    /\ \/ /\ data # <<>>
          /\ ran' = ran \cup {"read_archive"}
          /\ pc' = "aggregate"
          /\ UNCHANGED <<csv_file, failed>>
       \/ Abort("read_archive")
    /\ UNCHANGED <<env, fs, args, locals, fs0, writers, shown, runs>>

\* filter by station and element, convert the unit and the date, group and average
FilterAggregate ==
    /\ pc = "aggregate"
    /\ LET country_data == FilterRows(data, stations)
       IN  IF DatesFail(country_data)
           THEN /\ Abort("aggregate")
                /\ UNCHANGED avg_temp_data
           ELSE /\ avg_temp_data' = GroupMean(ToCelsius(country_data))
                /\ ran' = ran \cup {"aggregate"}
                /\ pc' = "join"
                /\ UNCHANGED <<csv_file, failed>>
    /\ UNCHANGED <<env, fs, args, inventory_data, stations, data, fs0, writers, shown, runs>>

\* merge with station_df, then the SIZE column
JoinNormalize ==
    /\ pc = "join"
    /\ avg_temp_data' = Normalize(Merge(avg_temp_data, stations))
    /\ ran' = ran \cup {"join"}
    /\ pc' = "write"
    /\ UNCHANGED <<env, fs, args, inventory_data, stations, data, csv_file, failed, fs0,
                   writers, shown, runs>>

Noted(w, name, key) ==
    [n \in DOMAIN w \cup {name} |-> IF n = name THEN (IF n \in DOMAIN w THEN Append(w[n], key) ELSE <<key>>) ELSE w[n]]

\* avg_temp_data.to_csv(output_file, index=False); return output_file.
\* to_csv opens the file for writing and then writes the rows; it can raise
\* before the file is created, or after, and nothing removes the file then.
WriteArtifact ==
    /\ pc = "write"
    /\ \/ /\ fs' = Put(fs, output_file, [rows |-> avg_temp_data, complete |-> TRUE])
          /\ writers' = Noted(writers, output_file, <<country_code, year>>)
          /\ ran' = ran \cup {"write"}
          /\ csv_file' = output_file
          /\ pc' = "main_109"
          /\ UNCHANGED failed
       \/ /\ Abort("write")
          /\ UNCHANGED <<fs, writers>>
       \/ /\ Abort("write")
          /\ \E n \in 0..(IF avg_temp_data = <<>> THEN 0 ELSE Len(avg_temp_data) - 1) :
                fs' = Put(fs, output_file,
                          [rows |-> SubSeq(avg_temp_data, 1, n), complete |-> FALSE])
          /\ writers' = Noted(writers, output_file, <<country_code, year>>)
    /\ UNCHANGED <<env, args, locals, fs0, runs, shown>>

\* back in main, "if csv_file:" holds: visualize_data(csv_file, ...), then exit
Visualize ==
    /\ pc = "main_109"
    /\ Truthy(csv_file)
    /\ shown' = TRUE
    /\ pc' = "exit"
    /\ UNCHANGED <<env, fs, args, locals, csv_file, failed, ran, fs0, writers, runs>>

\* "if csv_file:" fails: exit without a plot
NoPlot ==
    /\ pc = "main_109"
    /\ ~ Truthy(csv_file)
    /\ pc' = "exit"
    /\ UNCHANGED <<env, fs, args, locals, csv_file, failed, ran, fs0, writers, shown, runs>>

\* the process ends; only the files remain for the next invocation
Exit ==
    /\ pc = "exit"
    /\ pc' = "idle"
    /\ year' = 0
    /\ country_code' = <<>>
    /\ inventory_data' = <<>>
    /\ stations' = <<>>
    /\ data' = <<>>
    /\ avg_temp_data' = <<>>
    /\ csv_file' = None
    /\ failed' = ""
    /\ ran' = {}
    /\ fs0' = fs
    /\ shown' = FALSE
    /\ UNCHANGED <<env, fs, writers, runs>>

Next ==
    \/ \E cc \in Countries, y \in Years : Main(cc, y)
    \/ CacheHit
    \/ CacheMiss
    \/ FetchInventory
    \/ ParseInventory
    \/ FetchArchive
    \/ ReadArchive
    \/ FilterAggregate
    \/ JoinNormalize
    \/ WriteArtifact
    \/ Visualize
    \/ NoPlot
    \/ Exit

Spec == Init /\ [][Next]_vars

\* ------------------------------------------------------------------- claims
Keys == Countries \X Years

StationIds == {stations[i][1] : i \in 1..Len(stations)}

returned == pc \in {"main_109", "exit"}

\* C1: a call that finds the artifact of its key fetches nothing, runs no
\* stage, returns the path of that artifact and leaves every file as it was;
\* no artifact is ever written twice.
C1_CacheHitIdempotent ==
    /\ (pc # "idle" /\ Exists(fs0, output_file)) =>
          /\ pc \in {"cache_gate", "main_109", "exit"}
          /\ ran = {}
          /\ fs = fs0
          /\ returned => csv_file = output_file
    /\ \A n \in DOMAIN writers : Len(writers[n]) <= 1

C1_Witness ==
    /\ pc = "main_109"
    /\ runs = 2
    /\ Exists(fs0, output_file)
    /\ csv_file = output_file
    /\ fs0[output_file].rows # <<>>

\* the joined table has a row with a mean other than 0
ProperTable == \E i \in 1..Len(avg_temp_data) : avg_temp_data[i].VALUE[1] # 0

\* C2: a call in which a stage failed returns None, leaves no artifact for
\* its key if there was none before, and main does not call visualize_data.
\* (A failed write is looked at for a proper table only, so that the empty
\* and the all-zero tables of C3 and C4 play no part.)
C2_FailureLeavesNoArtifact ==
    (returned /\ failed # "" /\ (failed = "write" => ProperTable)) =>
        /\ csv_file = None
        /\ ~ shown
        /\ (~ Exists(fs0, output_file) => ~ Exists(fs, output_file))

\* C3: a call whose joined set is empty (no station of the country, or no
\* temperature row of its stations) returns None without writing an artifact.
C3_EmptyResultIsError ==
    (returned /\ "join" \in ran /\ avg_temp_data = <<>>) =>
        /\ csv_file = None
        /\ "write" \notin ran
        /\ ~ Exists(fs, output_file)

\* C4: a call whose joined set is non-empty with every mean equal to 0
\* returns None without writing an artifact.
C4_ZeroDivisorIsError ==
    (/\ returned
     /\ "join" \in ran
     /\ avg_temp_data # <<>>
     /\ \A i \in 1..Len(avg_temp_data) : avg_temp_data[i].VALUE[1] = 0) =>
        /\ csv_file = None
        /\ "write" \notin ran
        /\ ~ Exists(fs, output_file)

\* the well-formed lines of the country, in input order
RECURSIVE WellFormedStations(_, _)
WellFormedStations(lines, cc) ==
    IF lines = <<>> THEN <<>>
    ELSE (IF ~ LineFails(Head(lines)) /\ Slice(Head(lines), 0, 2) = cc
          THEN <<StationOf(Head(lines))>> ELSE <<>>) \o WellFormedStations(Tail(lines), cc)

\* C5: a malformed inventory line never aborts the run: once the inventory
\* is parsed, the stations are all the well-formed lines of the country.
C5_LenientStationParsing ==
    "parse_stations" \in ran =>
        /\ failed # "parse_stations"
        /\ stations = WellFormedStations(splitlines(inventory_data), country_code)

\* the rows of data that count for station s
Contributing(s) ==
    {i \in 1..Len(data) : /\ data[i].ID = s
                          /\ s \in StationIds
                          /\ data[i].ELEMENT \in {"TMAX", "TMIN", "TAVG"}}

RECURSIVE SumRaw(_)
SumRaw(I) == IF I = {} THEN 0
             ELSE LET i == CHOOSE j \in I : TRUE IN data[i].VALUE + SumRaw(I \ {i})

\* C6: the aggregate has an entry for s exactly when a temperature row of a
\* requested station s exists, one entry at most, and 10 * mean * count is the
\* sum of the raw values of exactly those rows.
C6_AggregationCorrect ==
    pc = "join" =>
        /\ \A s \in StationIds \cup {data[i].ID : i \in 1..Len(data)} :
              Cardinality({k \in 1..Len(avg_temp_data) : avg_temp_data[k].ID = s})
                 = IF Contributing(s) # {} THEN 1 ELSE 0
        /\ \A k \in 1..Len(avg_temp_data) :
              LET I == Contributing(avg_temp_data[k].ID)
                  v == avg_temp_data[k].VALUE
              IN  /\ v[2] > 0
                  /\ 10 * v[1] * Cardinality(I) = v[2] * SumRaw(I)

C6_Witness ==
    /\ pc = "join"
    /\ \E k \in 1..Len(avg_temp_data) :
          /\ Cardinality(Contributing(avg_temp_data[k].ID)) = 2
          /\ avg_temp_data[k].VALUE = <<23, 10>>
    /\ \E i \in 1..Len(data) : data[i].ELEMENT = "PRCP"

\* |VALUE| of the rows of an artifact
AbsValues(rows) == {FAbs(rows[i].VALUE) : i \in 1..Len(rows)}

IsMax(m, rows) == m \in AbsValues(rows) /\ \A a \in AbsValues(rows) : FLeq(a, m)

\* C7: in every artifact written in full, SIZE = |VALUE| / max |VALUE| * 15,
\* SIZE lies in [0, 15], and a row of maximal |VALUE| has SIZE 15.
C7_NormalizationBound ==
    \A n \in DOMAIN fs : fs[n].complete =>
        \A i \in 1..Len(fs[n].rows) :
            LET r == fs[n].rows[i]
                a == FAbs(r.VALUE)
            IN  /\ r.SIZE # NaN
                /\ FLeq(<<0, 1>>, r.SIZE) /\ FLeq(r.SIZE, <<15, 1>>)
                /\ \A m \in AbsValues(fs[n].rows) :
                      IsMax(m, fs[n].rows) =>
                         /\ r.SIZE[1] * a[2] * m[1] = 15 * a[1] * m[2] * r.SIZE[2]
                         /\ (a = m => r.SIZE = <<15, 1>>)

\* the indices of the inventory lines that begin with the country code
MatchingLines(lines, cc) ==
    {i \in 1..Len(lines) : Len(lines[i]) >= 2 /\ <<lines[i][1], lines[i][2]>> = cc}

\* C8: for an inventory all of whose lines parse, the stations (as they stand
\* when the loop over the lines has ended) are exactly
\* the lines whose first two characters are the country code, in input order,
\* each with the first eleven characters of its line as id.
C8_StationFilter ==
    pc = "fetch_archive" =>
        LET lines == splitlines(inventory_data)
            M     == MatchingLines(lines, country_code)
        IN  /\ Len(stations) = Cardinality(M)
            /\ \A k \in 1..Len(stations) :
                  \E i \in M :
                     /\ Cardinality({j \in M : j < i}) = k - 1
                     /\ stations[k][1] = SubSeq(lines[i], 1, 11)
                     /\ <<stations[k][1][1], stations[k][1][2]>> = country_code

C8_Witness ==
    /\ pc = "fetch_archive"
    /\ country_code = <<"N", "O">>
    /\ Len(splitlines(inventory_data)) = 2
    /\ SubSeq(splitlines(inventory_data)[1], 1, 11) = ID_NZ1
    /\ stations # <<>>
    /\ stations[1][1] = ID_NO2

\* C9: every file was written by runs of the one key it is named after, a
\* cache hit returns a file of the run's own key, and a run changes no file
\* but the one of its key.
C9_NoCrossKey ==
    /\ pc = "main_109" => \A n \in DOMAIN writers : \A i \in 1..Len(writers[n]) : \A k \in Keys :
          OutputFile(k[1], k[2]) = n <=> k = writers[n][i]
    /\ (returned /\ csv_file # None) =>
          \A i \in 1..Len(writers[csv_file]) : writers[csv_file][i] = <<country_code, year>>
    /\ pc # "idle" =>
          /\ DOMAIN fs0 \subseteq DOMAIN fs
          /\ \A n \in DOMAIN fs : n # output_file => n \in DOMAIN fs0 /\ fs[n] = fs0[n]

C9_Witness ==
    /\ pc = "main_109"
    /\ "write" \in ran
    /\ csv_file = output_file
    /\ \E n \in DOMAIN fs0 : n # output_file /\ fs0[n].rows # <<>>

\* C10: an artifact written in full holds exactly one point for each station
\* id that is both in the station sequence and in the aggregate, with the
\* coordinates of that station and its mean, and no other point.
C10_Join ==
    (pc = "main_109" /\ "write" \in ran /\ failed = "") =>
        LET rows == fs[output_file].rows
            agg  == GroupMean(ToCelsius(FilterRows(data, stations)))
            both == StationIds \cap {agg[k].ID : k \in 1..Len(agg)}
        IN  /\ \A s \in both : Cardinality({i \in 1..Len(rows) : rows[i].ID = s}) = 1
            /\ \A i \in 1..Len(rows) :
                  /\ rows[i].ID \in both
                  /\ \E j \in 1..Len(stations) :
                        /\ stations[j][1] = rows[i].ID
                        /\ stations[j][2] = rows[i].LAT
                        /\ stations[j][3] = rows[i].LON
                  /\ \E k \in 1..Len(agg) :
                        agg[k].ID = rows[i].ID /\ agg[k].VALUE = rows[i].VALUE

C10_Witness ==
    /\ pc = "main_109"
    /\ "write" \in ran
    /\ failed = ""
    /\ Len(stations) = 2
    /\ Len(fs[output_file].rows) = 1
    /\ fs[output_file].rows[1].ID = ID_NO2
    /\ fs[output_file].rows[1].LAT = <<1393, 20>>

====
